---- MODULE Spec2Model ----
\* Backend selection of upm (internal/backends/backends.go): the registry
\* languageBackends, the --lang matcher matchesLanguage and the resolver
\* GetBackend, over a filesystem probed through util.Exists / util.PatternExists.
\*
\* Go strings are modelled as sequences of one-character strings, so that
\* strings.Split really splits and a filename pattern really globs.
EXTENDS Integers, Sequences, FiniteSets, TLC

VARIABLES
    languageBackends, \* the registry (a sequence of api.LanguageBackend)
    fs,               \* the project directory: the set of existing file names
    pc,               \* "start" | "returned" | "died" | "match" | "matched"
    language,         \* the --lang argument of the call
    result,           \* outcome of GetBackend
    b,                \* matcher under test: the descriptor
    matched           \* matcher under test: the returned bool (or "none")

vars == <<languageBackends, fs, pc, language, result, b, matched>>

----------------------------------------------------------------------------
\* Bounds

MaxBackends  == 3   \* longest registry
MaxHintParts == 2   \* hyphen-separated parts of a --lang value given to GetBackend
MaxNameLen   == 3   \* characters of b.Name given to matchesLanguage
MaxAliasLen  == 2   \* characters of b.Alias given to matchesLanguage
MaxTokenLen  == 3   \* characters of the token given to matchesLanguage

----------------------------------------------------------------------------
\* Strings

Hyphen == "-"

Chars == {"a", "b", Hyphen}

StrsUpTo(n) == UNION {[1..k -> Chars] : k \in 0..n}

SeqsUpTo(S, lo, hi) == UNION {[1..k -> S] : k \in lo..hi}

Range(s) == {s[i] : i \in DOMAIN s}

\* strings.Split(s, "-"): always at least one part; "" gives [""].
RECURSIVE Split(_)
Split(s) ==
    IF \A i \in DOMAIN s : s[i] # Hyphen
    THEN <<s>>
    ELSE LET i == CHOOSE k \in DOMAIN s :
                      s[k] = Hyphen /\ \A j \in 1..(k - 1) : s[j] # Hyphen
         IN  <<SubSeq(s, 1, i - 1)>> \o Split(SubSeq(s, i + 1, Len(s)))

\* strings.Join(parts, "-")
RECURSIVE Join(_)
Join(parts) ==
    IF Len(parts) = 0 THEN <<>>
    ELSE IF Len(parts) = 1 THEN parts[1]
    ELSE parts[1] \o <<Hyphen>> \o Join(Tail(parts))

----------------------------------------------------------------------------
\* Filesystem probe (internal/util)

\* A glob pattern against a file name: "*" matches any run of characters.
RECURSIVE GlobMatch(_, _)
GlobMatch(p, f) ==
    IF Len(p) = 0 THEN Len(f) = 0
    ELSE IF p[1] = "*"
         THEN \E k \in 0..Len(f) : GlobMatch(Tail(p), SubSeq(f, k + 1, Len(f)))
         ELSE Len(f) > 0 /\ f[1] = p[1] /\ GlobMatch(Tail(p), Tail(f))

Exists(path) == path \in fs

PatternExists(p) == \E f \in fs : GlobMatch(p, f)

----------------------------------------------------------------------------
\* matchesLanguage

\* slip: the alias parts are added to the name parts instead of replacing them
matchesLanguageUnion(bk, lang) ==
    LET bParts == Range(Split(bk.Name)) \cup Range(Split(bk.Alias))
        lParts == Split(lang)
    IN  \A i \in DOMAIN lParts : lParts[i] \in bParts

\* slip: the alias is never consulted
matchesLanguageNameOnly(bk, lang) ==
    LET nameParts == Range(Split(bk.Name))
        lParts    == Split(lang)
    IN  \A i \in DOMAIN lParts : lParts[i] \in nameParts

matchesLanguage(bk, lang) ==
    LET nameParts  == Range(Split(bk.Name))
        lParts     == Split(lang)
        checkAlias == \E i \in DOMAIN lParts : lParts[i] \notin nameParts
        aliasParts == Range(Split(bk.Alias))
    IN  IF checkAlias
        THEN \A i \in DOMAIN lParts : lParts[i] \in aliasParts
        ELSE TRUE

----------------------------------------------------------------------------
\* GetBackend

\* the first element of a sequence satisfying a test, by index
FirstIndex(s, Test(_)) ==
    IF \E i \in DOMAIN s : Test(s[i])
    THEN CHOOSE i \in DOMAIN s : Test(s[i]) /\ \A j \in 1..(i - 1) : ~Test(s[j])
    ELSE 0

Returned(bk) == [kind |-> "backend", backend |-> bk]

Die(format, arg) == [kind |-> "die", format |-> format, arg |-> arg]

\* slip: every backend is appended, matching or not
filteredBackendsAll(backends, lang) == backends

filteredBackends(backends, lang) ==
    SelectSeq(backends, LAMBDA bk : matchesLanguage(bk, lang))

\* slip: || for &&
HasBothOr(bk) == Exists(bk.Specfile) \/ Exists(bk.Lockfile)

HasBoth(bk) == Exists(bk.Specfile) /\ Exists(bk.Lockfile)

HasEither(bk) == Exists(bk.Specfile) \/ Exists(bk.Lockfile)

HasPattern(bk) ==
    \E i \in DOMAIN bk.FilenamePatterns : PatternExists(bk.FilenamePatterns[i])

LastIndex(s, Test(_)) ==
    IF \E i \in DOMAIN s : Test(s[i])
    THEN CHOOSE i \in DOMAIN s : Test(s[i]) /\ \A j \in (i + 1)..Len(s) : ~Test(s[j])
    ELSE 0

\* slip: each pass keeps scanning and returns its last hit
AutodetectLast(backends, lang) ==
    LET iA == LastIndex(backends, HasBoth)
        iB == LastIndex(backends, HasEither)
        iC == LastIndex(backends, HasPattern)
    IN  IF iA # 0 THEN Returned(backends[iA])
        ELSE IF iB # 0 THEN Returned(backends[iB])
        ELSE IF iC # 0 THEN Returned(backends[iC])
        ELSE IF lang = <<>>
             THEN Die("could not autodetect a language for your project", <<>>)
             ELSE Returned(backends[1])

\* slip: the order-based default is applied without a hint too
AutodetectDefault(backends, lang) ==
    LET iA == FirstIndex(backends, HasBoth)
        iB == FirstIndex(backends, HasEither)
        iC == FirstIndex(backends, HasPattern)
    IN  IF iA # 0 THEN Returned(backends[iA])
        ELSE IF iB # 0 THEN Returned(backends[iB])
        ELSE IF iC # 0 THEN Returned(backends[iC])
        ELSE Returned(backends[1])

\* slip: no evidence is fatal with a hint too
AutodetectAlwaysDie(backends, lang) ==
    LET iA == FirstIndex(backends, HasBoth)
        iB == FirstIndex(backends, HasEither)
        iC == FirstIndex(backends, HasPattern)
    IN  IF iA # 0 THEN Returned(backends[iA])
        ELSE IF iB # 0 THEN Returned(backends[iB])
        ELSE IF iC # 0 THEN Returned(backends[iC])
        ELSE Die("could not autodetect a language for your project", <<>>)

Autodetect(backends, lang) ==
    LET iA == FirstIndex(backends, HasBoth)
        iB == FirstIndex(backends, HasEither)
        iC == FirstIndex(backends, HasPattern)
    IN  IF iA # 0 THEN Returned(backends[iA])
        ELSE IF iB # 0 THEN Returned(backends[iB])
        ELSE IF iC # 0 THEN Returned(backends[iC])
        ELSE IF lang = <<>>
             THEN Die("could not autodetect a language for your project", <<>>)
             ELSE Returned(backends[1])

\* slip: no match does not end the call, the whole registry is autodetected
NarrowFallthrough(backends, lang) ==
    LET filtered == filteredBackends(backends, lang)
    IN  IF Len(filtered) = 0 THEN Autodetect(backends, lang)
        ELSE IF Len(filtered) = 1 THEN Returned(filtered[1])
        ELSE Autodetect(filtered, lang)

\* slip: a single match falls through to autodetection over the whole registry
NarrowNoSingle(backends, lang) ==
    LET filtered == filteredBackends(backends, lang)
    IN  IF Len(filtered) = 0 THEN Die("no such language: %s", lang)
        ELSE IF Len(filtered) = 1 THEN Autodetect(backends, lang)
        ELSE Autodetect(filtered, lang)

Narrow(backends, lang) ==
    LET filtered == filteredBackends(backends, lang)
    IN  IF Len(filtered) = 0 THEN Die("no such language: %s", lang)
        ELSE IF Len(filtered) = 1 THEN Returned(filtered[1])
        ELSE Autodetect(filtered, lang)

GetBackendResult(lang) ==
    IF lang # <<>>
    THEN Narrow(languageBackends, lang)
    ELSE Autodetect(languageBackends, lang)

----------------------------------------------------------------------------
\* Inputs

NoBackend ==
    [Name |-> <<>>, Alias |-> <<>>, Specfile |-> <<>>, Lockfile |-> <<>>,
     FilenamePatterns |-> <<>>]

Backend(name, alias, spec, lock, pats) ==
    [Name |-> name, Alias |-> alias, Specfile |-> spec, Lockfile |-> lock,
     FilenamePatterns |-> pats]

\* Descriptors a registry is drawn from. Like the real ones they overlap in
\* name parts (python-python3-poetry / python-python3-pip), share a specfile
\* (package.json of the nodejs backends), and some have an alias or patterns.
BackendPool ==
    { Backend(<<"a", "-", "b">>, <<>>,    <<"s", "1">>, <<"l", "1">>, <<<<"*", ".", "x">>>>),
      Backend(<<"a">>,           <<>>,    <<"s", "1">>, <<"l", "2">>, <<>>),
      Backend(<<"b", "-", "a">>, <<"c">>, <<"s", "1">>, <<"l", "1">>, <<>>),
      Backend(<<"b">>,           <<"a", "-", "c">>, <<"s", "2">>, <<"l", "2">>, <<<<"m", ".", "*">>>>) }

Files == { <<"s", "1">>, <<"l", "1">>, <<"s", "2">>, <<"l", "2">>, <<"m", ".", "x">> }

Registries ==
    { r \in SeqsUpTo(BackendPool, 1, MaxBackends) :
        \A i, j \in DOMAIN r : i # j => r[i].Name # r[j].Name }

HintParts == { <<>>, <<"a">>, <<"b">>, <<"c">> }

Hints == { Join(ps) : ps \in SeqsUpTo(HintParts, 1, MaxHintParts) }

----------------------------------------------------------------------------
\* The resolver as a process: the project directory changes until upm runs,
\* then one GetBackend call returns a backend or exits the process.

Init ==
    /\ languageBackends \in Registries
    /\ fs = {}
    /\ pc = "start"
    /\ language = <<>>
    /\ result = [kind |-> "none"]
    /\ b = NoBackend
    /\ matched = "none"

CreateFile ==
    /\ pc = "start"
    /\ \E f \in Files \ fs : fs' = fs \cup {f}
    /\ UNCHANGED <<languageBackends, pc, language, result, b, matched>>

RemoveFile ==
    /\ pc = "start"
    /\ \E f \in fs : fs' = fs \ {f}
    /\ UNCHANGED <<languageBackends, pc, language, result, b, matched>>

GetBackend ==
    /\ pc = "start"
    /\ \E lang \in Hints :
         /\ language' = lang
         /\ result' = GetBackendResult(lang)
    /\ pc' = IF result'.kind = "die" THEN "died" ELSE "returned"
    /\ UNCHANGED <<languageBackends, fs, b, matched>>

Next == CreateFile \/ RemoveFile \/ GetBackend

Spec == Init /\ [][Next]_vars

----------------------------------------------------------------------------
\* The matcher alone, over every short name, alias and token.

InitMatch ==
    /\ languageBackends = <<>>
    /\ fs = {}
    /\ pc = "match"
    /\ language \in StrsUpTo(MaxTokenLen)
    /\ result = [kind |-> "none"]
    /\ \E n \in StrsUpTo(MaxNameLen), a \in StrsUpTo(MaxAliasLen) :
         b = Backend(n, a, <<>>, <<>>, <<>>)
    /\ matched = "none"

MatchesLanguage ==
    /\ pc = "match"
    /\ matched' = matchesLanguage(b, language)
    /\ pc' = "matched"
    /\ UNCHANGED <<languageBackends, fs, language, result, b>>

NextMatch == MatchesLanguage

SpecMatch == InitMatch /\ [][NextMatch]_vars

----------------------------------------------------------------------------
\* Vocabulary of the properties, stated without the operators above.

Done == pc \in {"returned", "died"}

Wrap(s) == <<Hyphen>> \o s \o <<Hyphen>>

\* p is a hyphen-separated part of s: p has no hyphen and -p- occurs in -s-
IsPartOf(p, s) ==
    /\ \A i \in DOMAIN p : p[i] # Hyphen
    /\ \E i \in 1..(Len(s) + 1 - Len(p)) :
         SubSeq(Wrap(s), i, i + Len(p) + 1) = Wrap(p)

Substrings(s) == {SubSeq(s, i, j) : i \in 1..(Len(s) + 1), j \in 0..Len(s)}

\* every part of t is a part of s
Covers(s, t) == \A p \in Substrings(t) : IsPartOf(p, t) => IsPartOf(p, s)

BothPresent(d) == d.Specfile \in fs /\ d.Lockfile \in fs

EitherPresent(d) == d.Specfile \in fs \/ d.Lockfile \in fs

PatternHit(d) ==
    \E i \in DOMAIN d.FilenamePatterns : \E f \in fs : GlobMatch(d.FilenamePatterns[i], f)

AnyEvidence(d) == EitherPresent(d) \/ PatternHit(d)

Min(X) == CHOOSE x \in X : \A y \in X : x <= y

Idx == DOMAIN languageBackends

Matching == {i \in Idx : matchesLanguage(languageBackends[i], language)}

\* the list the evidence passes run over, when they run
Working == IF language = <<>> THEN Idx ELSE Matching

PassesRun == language = <<>> \/ Cardinality(Matching) >= 2

Winning ==
    IF \E i \in Working : BothPresent(languageBackends[i])
    THEN {i \in Working : BothPresent(languageBackends[i])}
    ELSE IF \E i \in Working : EitherPresent(languageBackends[i])
    THEN {i \in Working : EitherPresent(languageBackends[i])}
    ELSE {i \in Working : PatternHit(languageBackends[i])}

Named == {i \in Idx : languageBackends[i].Name = language}

\* no other descriptor's name or alias has all the parts of descriptor i's name
OnlyCover(i) ==
    \A j \in Idx \ {i} :
        /\ ~Covers(languageBackends[j].Name, languageBackends[i].Name)
        /\ ~Covers(languageBackends[j].Alias, languageBackends[i].Name)

----------------------------------------------------------------------------
\* C1 as stated: with pairwise distinct names, a hint equal to D's full name
\* makes GetBackend return D, whatever the filesystem holds.
C1_AsStated ==
    (Done /\ language # <<>>) =>
        \A i \in Named : result = Returned(languageBackends[i])

\* C1 amended: with pairwise distinct names, a hint equal to D's full name
\* never fails, and GetBackend returns D itself whenever no other descriptor of
\* the registry has a name or an alias whose parts include every part of D's name.
C1_FullName ==
    (Done /\ language # <<>>) =>
        \A i \in Named :
            /\ result.kind = "backend"
            /\ OnlyCover(i) => result = Returned(languageBackends[i])

C1_Witness ==
    /\ pc = "returned" /\ language # <<>>
    /\ \E i \in Named :
         /\ OnlyCover(i)
         /\ i > 1
         /\ ~AnyEvidence(languageBackends[i])
         /\ BothPresent(languageBackends[1])
         /\ result = Returned(languageBackends[i])

\* C2: without a hint the passes are ordered by strength, not by position: if
\* some descriptor has specfile and lockfile the result has both; otherwise if
\* some descriptor has one of them the result has one of them.
C2_PassOrder ==
    (Done /\ language = <<>>) =>
        /\ (\E i \in Idx : BothPresent(languageBackends[i])) =>
              (result.kind = "backend" /\ BothPresent(result.backend))
        /\ (\E i \in Idx : EitherPresent(languageBackends[i])) =>
              (result.kind = "backend" /\ EitherPresent(result.backend))

C2_Witness ==
    /\ pc = "returned" /\ language = <<>>
    /\ Len(languageBackends) >= 3
    /\ PatternHit(languageBackends[1]) /\ ~EitherPresent(languageBackends[1])
    /\ EitherPresent(languageBackends[2]) /\ ~BothPresent(languageBackends[2])
    /\ result = Returned(languageBackends[3])
    /\ BothPresent(result.backend)

\* C3: within the winning pass the registry order breaks the tie: the result
\* is the descriptor of smallest registry index among those of the working
\* list that satisfy the winning pass's condition.
C3_TieBreak ==
    (Done /\ PassesRun /\ Winning # {}) =>
        result = Returned(languageBackends[Min(Winning)])

C3_Witness ==
    /\ pc = "returned" /\ PassesRun
    /\ Cardinality(Winning) >= 2
    /\ Min(Winning) > 1
    /\ \A i \in Winning : BothPresent(languageBackends[i])
    /\ result = Returned(languageBackends[Min(Winning)])

\* C4: a non-empty hint that matchesLanguage accepts for no descriptor ends in
\* the fatal "no such language: <hint>" carrying the hint, whatever the files.
C4_UnknownLanguage ==
    (Done /\ language # <<>> /\ Matching = {}) =>
        /\ pc = "died"
        /\ result = [kind |-> "die", format |-> "no such language: %s", arg |-> language]

C4_Witness ==
    /\ pc = "died" /\ language # <<>> /\ Matching = {}
    /\ \E i \in Idx : BothPresent(languageBackends[i])
    /\ result.arg = language

\* C5: without a hint and without any evidence for any descriptor GetBackend
\* ends in the fatal "could not autodetect a language for your project".
C5_NoLanguageDetected ==
    (Done /\ language = <<>> /\ \A i \in Idx : ~AnyEvidence(languageBackends[i])) =>
        /\ pc = "died"
        /\ result.kind = "die"
        /\ result.format = "could not autodetect a language for your project"

C5_Witness ==
    /\ pc = "died" /\ language = <<>>
    /\ Len(languageBackends) >= 2
    /\ fs # {}
    /\ \A i \in Idx : ~AnyEvidence(languageBackends[i])

\* C6: a hint matching two or more descriptors, none of which has any
\* evidence, yields the first matching descriptor in registry order, no failure.
C6_NarrowedFallback ==
    (Done /\ language # <<>> /\ Cardinality(Matching) >= 2
          /\ \A i \in Matching : ~AnyEvidence(languageBackends[i])) =>
        /\ pc = "returned"
        /\ result = Returned(languageBackends[Min(Matching)])

C6_Witness ==
    /\ pc = "returned" /\ language # <<>> /\ Cardinality(Matching) >= 2
    /\ \A i \in Matching : ~AnyEvidence(languageBackends[i])
    /\ Min(Matching) > 1
    /\ BothPresent(languageBackends[1])
    /\ result = Returned(languageBackends[Min(Matching)])

\* C7: a hint matched by exactly one descriptor yields that descriptor in
\* every filesystem state, the files of the project are not consulted.
C7_SingleMatch ==
    (Done /\ language # <<>> /\ Cardinality(Matching) = 1) =>
        \A i \in Matching : result = Returned(languageBackends[i])

C7_Witness ==
    /\ pc = "returned" /\ language # <<>> /\ Cardinality(Matching) = 1
    /\ \E i \in Matching :
         /\ ~AnyEvidence(languageBackends[i])
         /\ \E j \in Idx \ {i} : j < i /\ BothPresent(languageBackends[j])
         /\ result = Returned(languageBackends[i])

\* C8: matchesLanguage is true exactly when every part of the token is a part
\* of the name, or every part of the token is a part of the alias (parts found
\* only across name and alias together do not count).
C8_Matcher ==
    (pc = "matched") =>
        (matched = (Covers(b.Name, language) \/ Covers(b.Alias, language)))

C8_Witness ==
    /\ pc = "matched" /\ matched = FALSE
    /\ \A p \in Substrings(language) :
         IsPartOf(p, language) => (IsPartOf(p, b.Name) \/ IsPartOf(p, b.Alias))
    /\ ~Covers(b.Name, language)
    /\ ~Covers(b.Alias, language)

\* C9: with an empty alias, a non-empty token matches only if every part of
\* the token is a part of the name.
C9_EmptyAlias ==
    (pc = "matched" /\ b.Alias = <<>> /\ language # <<>> /\ matched = TRUE) =>
        Covers(b.Name, language)

\* C10: when a hint matches two or more descriptors, whatever GetBackend
\* returns is a descriptor the hint matches.
C10_OnlyMatching ==
    (Done /\ language # <<>> /\ Cardinality(Matching) >= 2) =>
        /\ result.kind = "backend"
        /\ \E i \in Matching : result = Returned(languageBackends[i])

C10_Witness ==
    /\ pc = "returned" /\ language # <<>> /\ Cardinality(Matching) >= 2
    /\ 1 \notin Matching
    /\ BothPresent(languageBackends[1])
    /\ \A i \in Matching : ~BothPresent(languageBackends[i])
    /\ \E i \in Matching : result = Returned(languageBackends[i])

====
